---- MODULE Spec2Model ----
(***************************************************************************)
(* Appointment intake pipeline of salon-booking:                           *)
(*   backend/src/validation/appointments.ts  (validator, normalizer,       *)
(*                                            schedule policy)             *)
(*   backend/src/app.ts                      (POST /appointments, central  *)
(*                                            error handler)               *)
(* JavaScript strings are sequences of one-character strings; JavaScript   *)
(* values are records tagged with their typeof; Date values are epoch      *)
(* milliseconds or NaN.                                                    *)
(***************************************************************************)
EXTENDS Integers, Sequences, FiniteSets

(***************************************************************************)
(* Characters and strings                                                  *)
(***************************************************************************)
DigitChars == <<"0", "1", "2", "3", "4", "5", "6", "7", "8", "9">>

IsDigit(c) == \E i \in 1..10 : DigitChars[i] = c

DigitVal(c) == (CHOOSE i \in 1..10 : DigitChars[i] = c) - 1

\* \s of the regular expressions and the white space String.prototype.trim strips
IsSpace(c) == c \in {" ", "\t", "\n"}

Min(a, b) == IF a < b THEN a ELSE b

Abs(n) == IF n < 0 THEN -n ELSE n

\* c repeated n times
Rep(c, n) == [i \in 1..n |-> c]

\* decimal rendering of n >= 0, left-padded with zeros to at least w digits
RECURSIVE Pad(_, _)
Pad(n, w) ==
  IF w <= 1 /\ n < 10 THEN <<DigitChars[n + 1]>>
  ELSE Pad(n \div 10, w - 1) \o <<DigitChars[(n % 10) + 1]>>

\* value of the decimal digits s[from..to]
RECURSIVE DigitsVal(_, _, _)
DigitsVal(s, from, to) ==
  IF to < from THEN 0
  ELSE 10 * DigitsVal(s, from, to - 1) + DigitVal(s[to])

AllDigits(s, from, to) ==
  /\ to <= Len(s)
  /\ \A i \in from..to : IsDigit(s[i])

\* String.prototype.trim
Trim(s) ==
  LET keep == {i \in 1..Len(s) : ~IsSpace(s[i])}
  IN  IF keep = {} THEN <<>>
      ELSE SubSeq(s, CHOOSE i \in keep : \A j \in keep : i <= j,
                     CHOOSE i \in keep : \A j \in keep : j <= i)

\* String.prototype.slice(0, n)
Slice0(s, n) == SubSeq(s, 1, Min(n, Len(s)))

UpperChars == <<"A", "E", "J", "X">>
LowerChars == <<"a", "e", "j", "x">>

\* String.prototype.toLowerCase over the alphabet of the inputs
ToLowerCase(s) ==
  [i \in 1..Len(s) |->
     IF \E k \in 1..Len(UpperChars) : UpperChars[k] = s[i]
     THEN LowerChars[CHOOSE k \in 1..Len(UpperChars) : UpperChars[k] = s[i]]
     ELSE s[i]]

\* String.prototype.replace(pat, rep) with a string pattern: the first occurrence
ReplaceFirst(s, pat, rep) ==
  LET hits == {i \in 1..(Len(s) - Len(pat) + 1) :
                 SubSeq(s, i, i + Len(pat) - 1) = pat}
  IN  IF hits = {} THEN s
      ELSE LET i == CHOOSE h \in hits : \A g \in hits : h <= g
           IN  SubSeq(s, 1, i - 1) \o rep \o SubSeq(s, i + Len(pat), Len(s))

(***************************************************************************)
(* Date: parsing of ISO date-time strings and Date.prototype.toISOString   *)
(***************************************************************************)
MsPerMinute == 60000
MsPerHour == 60 * MsPerMinute
MsPerDay == 24 * MsPerHour

\* A time value is the epoch millisecond count day * MsPerDay + tod, kept as the
\* pair (day, tod) with 0 <= tod < MsPerDay; NaN is the invalid time value.
NaN == [ok |-> FALSE, day |-> 0, tod |-> 0]

Time(day, ms) ==
  [ok |-> TRUE, day |-> day + ms \div MsPerDay, tod |-> ms % MsPerDay]

\* t + ms
AddMs(t, ms) == IF t.ok THEN Time(t.day, t.tod + ms) ELSE NaN

\* a <= b on time values; false when either is NaN
TimeLeq(a, b) ==
  /\ a.ok /\ b.ok
  /\ \/ a.day < b.day
     \/ a.day = b.day /\ a.tod <= b.tod

\* Math.floor(ms / 60_000) * 60_000
MinuteFloor(t) ==
  IF t.ok THEN Time(t.day, (t.tod \div MsPerMinute) * MsPerMinute) ELSE NaN

\* days since 1970-01-01 of the proleptic Gregorian date y-m-d (MakeDay)
DaysFromCivil(y, m, d) ==
  LET yy  == IF m <= 2 THEN y - 1 ELSE y
      era == yy \div 400
      yoe == yy - era * 400
      mp  == (m + 9) % 12
      doy == (153 * mp + 2) \div 5 + d - 1
      doe == yoe * 365 + yoe \div 4 - yoe \div 100 + doy
  IN  era * 146097 + doe - 719468

\* the date [y, m, d] of day z since 1970-01-01 (YearFromTime, MonthFromTime,
\* DateFromTime), by era of 400 years, day of era, year of era, day of year
CivilOfMonth(y0, m, d) == [y |-> y0 + (IF m <= 2 THEN 1 ELSE 0), m |-> m, d |-> d]

CivilOfMp(y0, doy, mp) ==
  CivilOfMonth(y0, (IF mp < 10 THEN mp + 3 ELSE mp - 9),
               doy - (153 * mp + 2) \div 5 + 1)

CivilOfDoy(y0, doy) == CivilOfMp(y0, doy, (5 * doy + 2) \div 153)

CivilOfYoe(era, doe, yoe) ==
  CivilOfDoy(yoe + era * 400, doe - (365 * yoe + yoe \div 4 - yoe \div 100))

CivilOfDoe(era, doe) ==
  CivilOfYoe(era, doe,
             (doe - doe \div 1460 + doe \div 36524 - doe \div 146096) \div 365)

CivilOfEra(zz, era) == CivilOfDoe(era, zz - era * 146097)

CivilFromDays(z) == CivilOfEra(z + 719468, (z + 719468) \div 146097)

\* The time-zone designator t of an ISO string: "Z" or +HH:MM / -HH:MM.
\* [ok, min]: minutes east of UTC.
ParseZone(t) ==
  IF t = <<"Z">> THEN [ok |-> TRUE, min |-> 0]
  ELSE IF /\ Len(t) = 6
          /\ t[1] \in {"+", "-"}
          /\ AllDigits(t, 2, 3) /\ t[4] = ":" /\ AllDigits(t, 5, 6)
          /\ DigitsVal(t, 2, 3) <= 23 /\ DigitsVal(t, 5, 6) <= 59
       THEN [ok |-> TRUE,
             min |-> (IF t[1] = "-" THEN -1 ELSE 1)
                       * (60 * DigitsVal(t, 2, 3) + DigitsVal(t, 5, 6))]
       ELSE [ok |-> FALSE, min |-> 0]

\* The part of an ISO string after HH:MM is an optional :SS, an optional .mmm and
\* the zone. [ok, sec, ms, min].
TailFields(sec, ms, z) == [ok |-> z.ok, sec |-> sec, ms |-> ms, min |-> z.min]

\* r follows the seconds
ParseFraction(sec, r) ==
  IF Len(r) >= 4 /\ r[1] = "." /\ AllDigits(r, 2, 4)
  THEN TailFields(sec, DigitsVal(r, 2, 4), ParseZone(SubSeq(r, 5, Len(r))))
  ELSE TailFields(sec, 0, ParseZone(r))

\* r follows HH:MM
ParseTail(r) ==
  IF Len(r) >= 3 /\ r[1] = ":" /\ AllDigits(r, 2, 3)
  THEN ParseFraction(DigitsVal(r, 2, 3), SubSeq(r, 4, Len(r)))
  ELSE TailFields(0, 0, ParseZone(r))

\* The time value of the fields of a date-time string. A month outside 1..12, an
\* hour, minute or second out of range gives NaN; a day of 1..31 beyond the month's
\* end rolls into the next month (MakeDay); 24:00 is the end of the day.
MakeTime(y, mo, d, h, mi, tail) ==
  IF /\ tail.ok
     /\ mo \in 1..12 /\ d \in 1..31 /\ mi <= 59 /\ tail.sec <= 59
     /\ \/ h <= 23
        \/ h = 24 /\ mi = 0 /\ tail.sec = 0 /\ tail.ms = 0
  THEN Time(DaysFromCivil(y, mo, d),
            h * MsPerHour + (mi - tail.min) * MsPerMinute
              + tail.sec * 1000 + tail.ms)
  ELSE NaN

\* s from its year of yl characters on, the year's value being y
ParseFrom(s, yl, y) ==
  IF /\ Len(s) >= yl + 13
     /\ s[yl + 1] = "-" /\ AllDigits(s, yl + 2, yl + 3)
     /\ s[yl + 4] = "-" /\ AllDigits(s, yl + 5, yl + 6)
     /\ s[yl + 7] = "T" /\ AllDigits(s, yl + 8, yl + 9)
     /\ s[yl + 10] = ":" /\ AllDigits(s, yl + 11, yl + 12)
  THEN MakeTime(y, DigitsVal(s, yl + 2, yl + 3), DigitsVal(s, yl + 5, yl + 6),
                DigitsVal(s, yl + 8, yl + 9), DigitsVal(s, yl + 11, yl + 12),
                ParseTail(SubSeq(s, yl + 13, Len(s))))
  ELSE NaN

\* Date.parse / new Date(s).getTime() of a date-time string with a zone: the year is
\* YYYY or the expanded +YYYYYY / -YYYYYY (-000000 is not a year).
DateParse(s) ==
  IF Len(s) >= 7 /\ s[1] \in {"+", "-"}
  THEN IF AllDigits(s, 2, 7) /\ ~(s[1] = "-" /\ DigitsVal(s, 2, 7) = 0)
       THEN ParseFrom(s, 7, (IF s[1] = "-" THEN -1 ELSE 1) * DigitsVal(s, 2, 7))
       ELSE NaN
  ELSE IF AllDigits(s, 1, 4) THEN ParseFrom(s, 4, DigitsVal(s, 1, 4))
       ELSE NaN

\* YYYY-MM-DDTHH:mm:ss.sssZ of the date c and the time of day tod, the year
\* expanded to a sign and six digits outside 0..9999
IsoText(c, tod) ==
  (IF c.y \in 0..9999 THEN Pad(c.y, 4)
   ELSE <<(IF c.y < 0 THEN "-" ELSE "+")>> \o Pad(Abs(c.y), 6))
    \o <<"-">> \o Pad(c.m, 2) \o <<"-">> \o Pad(c.d, 2) \o <<"T">>
    \o Pad(tod \div MsPerHour, 2) \o <<":">>
    \o Pad((tod \div MsPerMinute) % 60, 2) \o <<":">>
    \o Pad((tod \div 1000) % 60, 2) \o <<".">>
    \o Pad(tod % 1000, 3) \o <<"Z">>

\* Date.prototype.toISOString of a valid time value
ToISOString(t) == IsoText(CivilFromDays(t.day), t.tod)

(***************************************************************************)
(* JavaScript values: [t] is the typeof; a number is n, or n + 1/2 with     *)
(* half, or NaN with nan; a string is s.                                   *)
(***************************************************************************)
Undefined == [t |-> "undefined", n |-> 0, half |-> FALSE, nan |-> FALSE, s |-> <<>>]
Num(n)     == [t |-> "number", n |-> n, half |-> FALSE, nan |-> FALSE, s |-> <<>>]
NumHalf(n) == [t |-> "number", n |-> n, half |-> TRUE, nan |-> FALSE, s |-> <<>>]
NumNaN     == [t |-> "number", n |-> 0, half |-> FALSE, nan |-> TRUE, s |-> <<>>]
Str(s)     == [t |-> "string", n |-> 0, half |-> FALSE, nan |-> FALSE, s |-> s]

\* ToBoolean
Truthy(v) ==
  CASE v.t = "number" -> ~v.nan /\ (v.n # 0 \/ v.half)
    [] v.t = "string" -> Len(v.s) > 0
    [] OTHER -> FALSE

\* Number.isInteger(v) for a number v
IsInteger(v) == ~v.nan /\ ~v.half

\* v <= 0 for a number v
LeqZero(v) == ~v.nan /\ (IF v.half THEN v.n < 0 ELSE v.n <= 0)

\* String(v)
ToString(v) ==
  CASE v.t = "string" -> v.s
    [] v.t = "number" /\ v.nan -> <<"N", "a", "N">>
    [] v.t = "number" /\ ~v.nan /\ ~v.half ->
         (IF v.n < 0 THEN <<"-">> ELSE <<>>) \o Pad(Abs(v.n), 1)
    [] v.t = "number" /\ ~v.nan /\ v.half ->
         IF v.n < 0 THEN <<"-">> \o Pad(-v.n - 1, 1) \o <<".", "5">>
         ELSE Pad(v.n, 1) \o <<".", "5">>
    [] OTHER -> <<"u", "n", "d", "e", "f", "i", "n", "e", "d">>

\* Number(v)
StringToNumber(s) ==
  IF s = <<>> THEN Num(0)
  ELSE IF AllDigits(s, 1, Len(s)) THEN Num(DigitsVal(s, 1, Len(s)))
  ELSE NumNaN

ToNumber(v) ==
  CASE v.t = "number" -> v
    [] v.t = "string" -> StringToNumber(Trim(v.s))
    [] OTHER -> NumNaN

(***************************************************************************)
(* validation/appointments.ts                                              *)
(***************************************************************************)
Null == "null"

MsgServiceId     == "serviceId must be a positive integer"
MsgStartString   == "startAt must be a string"
MsgStartIso      == "startAt must be ISO 8601 without seconds/milliseconds (e.g., 2025-09-20T18:00Z)"
MsgStartInvalid  == "startAt is not a valid datetime"
MsgNameRequired  == "clientName is required"
MsgContact       == "Either clientEmail or clientPhone must be provided"
MsgEmailFormat   == "clientEmail must be a valid email address"
MsgEmailLong     == "clientEmail is too long"
MsgPhoneShort    == "clientPhone must be at least 7 digits long"
MsgPhoneLong     == "clientPhone is too long"
MsgNameLong      == "clientName is too long"
MsgGrid          == "startAt must align to 15-minute increments"
MsgFuture        == "startAt must be in the future"

EmailMaxLen == 255
PhoneMinLen == 7
PhoneMaxLen == 40
NameMaxLen  == 120
NameCap     == 120
EmailCap    == 255
PhoneCap    == 40
GridStep    == 15

\* /^\d{4}-\d{2}-\d{2}T\d{2}:\d{2}(?:Z|[+-]\d{2}:\d{2})$/.test(s)
ISO_MINUTE_NO_SECONDS(s) ==
  /\ Len(s) >= 17
  /\ AllDigits(s, 1, 4) /\ s[5] = "-" /\ AllDigits(s, 6, 7) /\ s[8] = "-"
  /\ AllDigits(s, 9, 10) /\ s[11] = "T" /\ AllDigits(s, 12, 13)
  /\ s[14] = ":" /\ AllDigits(s, 15, 16)
  /\ \/ Len(s) = 17 /\ s[17] = "Z"
     \/ /\ Len(s) = 22 /\ s[17] \in {"+", "-"} /\ AllDigits(s, 18, 19)
        /\ s[20] = ":" /\ AllDigits(s, 21, 22)

\* /^[^\s@]+@[^\s@]+\.[^\s@]+$/.test(s): no white space, one @ after a non-empty
\* local part, and after it a dot with at least one character on either side
EmailShape(s) ==
  LET ats == {i \in 1..Len(s) : s[i] = "@"}
  IN  /\ Cardinality(ats) = 1
      /\ \A i \in 1..Len(s) : ~IsSpace(s[i])
      /\ LET at == CHOOSE i \in ats : TRUE
         IN  /\ at > 1
             /\ \E j \in (at + 2)..(Len(s) - 1) : s[j] = "."

validateStartAtMinuteOnly(v) ==
  IF v.t # "string" THEN MsgStartString
  ELSE IF ~ISO_MINUTE_NO_SECONDS(v.s) THEN MsgStartIso
  ELSE IF ~DateParse(v.s).ok THEN MsgStartInvalid
  ELSE Null

\* new Date(ms).toISOString().replace(".000Z", "Z"); [thrown, v]: toISOString
\* throws a RangeError on an invalid time value
IsoNoMillis(t) ==
  IF ~t.ok THEN [thrown |-> TRUE, v |-> <<>>]
  ELSE [thrown |-> FALSE,
        v |-> ReplaceFirst(ToISOString(t), <<".", "0", "0", "0", "Z">>, <<"Z">>)]

normalizeToIsoMinuteZ(s) == IsoNoMillis(MinuteFloor(DateParse(s)))

\* d.getUTCMinutes(): [ok, m], NaN for an invalid date
GetUTCMinutes(t) == [ok |-> t.ok, m |-> (t.tod \div MsPerMinute) % 60]

\* the grid test with a step of half an hour: a variant the grid rule must tell apart
OnGridHalfHour(m) == m.ok /\ m.m % (2 * GridStep) = 0

\* m % 15 === 0
OnGrid(m) == m.ok /\ m.m % GridStep = 0

enforceFifteenMinuteGrid(isoMinuteZ) ==
  IF OnGrid(GetUTCMinutes(DateParse(isoMinuteZ))) THEN Null ELSE MsgGrid

\* The rules of validateAppointment, in the order of the code: each gives its
\* message, or Null when the payload passes it.
RuleServiceId(data) ==
  IF \/ data.serviceId.t # "number"
     \/ ~IsInteger(data.serviceId)
     \/ LeqZero(data.serviceId)
  THEN MsgServiceId ELSE Null

RuleStartAt(data) == validateStartAtMinuteOnly(data.startAt)

RuleNameRequired(data) ==
  IF data.clientName.t # "string" \/ Len(Trim(data.clientName.s)) = 0
  THEN MsgNameRequired ELSE Null

RuleContact(data) ==
  IF ~Truthy(data.clientEmail) /\ ~Truthy(data.clientPhone)
  THEN MsgContact ELSE Null

HasEmail(data) == data.clientEmail.t = "string" /\ Len(data.clientEmail.s) > 0

RuleEmailFormat(data) ==
  IF HasEmail(data) /\ ~EmailShape(data.clientEmail.s)
  THEN MsgEmailFormat ELSE Null

RuleEmailLength(data) ==
  IF HasEmail(data) /\ Len(data.clientEmail.s) > EmailMaxLen
  THEN MsgEmailLong ELSE Null

HasPhone(data) == data.clientPhone.t = "string" /\ Len(data.clientPhone.s) > 0

RulePhoneMin(data) ==
  IF HasPhone(data) /\ Len(data.clientPhone.s) < PhoneMinLen
  THEN MsgPhoneShort ELSE Null

RulePhoneMax(data) ==
  IF HasPhone(data) /\ Len(data.clientPhone.s) > PhoneMaxLen
  THEN MsgPhoneLong ELSE Null

RuleNameLength(data) ==
  IF data.clientName.t = "string" /\ Len(Trim(data.clientName.s)) > NameMaxLen
  THEN MsgNameLong ELSE Null

\* a push that stops at the first error: a variant the validator must tell apart
PushFirstOnly(errs, msg) ==
  IF msg # Null /\ errs = <<>> THEN Append(errs, msg) ELSE errs

\* if (...) errors.push(msg)
Push(errs, msg) == IF msg # Null THEN Append(errs, msg) ELSE errs

\* [thrown, errors]: reading a property of an undefined body throws a TypeError
validateAppointment(data) ==
  IF data.kind # "object" THEN [thrown |-> TRUE, errors |-> <<>>]
  ELSE [thrown |-> FALSE,
        errors |->
          Push(Push(Push(Push(Push(Push(Push(Push(Push(<<>>,
            RuleServiceId(data)),
            RuleStartAt(data)),
            RuleNameRequired(data)),
            RuleContact(data)),
            RuleEmailFormat(data)),
            RuleEmailLength(data)),
            RulePhoneMin(data)),
            RulePhoneMax(data)),
            RuleNameLength(data))]

\* the copy d of data with its fields normalized, startAt being start.v
NormalizedFields(data, start) ==
  [thrown |-> start.thrown,
   d |-> [kind        |-> data.kind,
          serviceId   |-> ToNumber(data.serviceId),
          startAt     |-> Str(start.v),
          clientName  |-> Str(Slice0(Trim(ToString(data.clientName)), NameCap)),
          clientEmail |->
            IF Truthy(data.clientEmail)
            THEN Str(Slice0(ToLowerCase(Trim(ToString(data.clientEmail))), EmailCap))
            ELSE data.clientEmail,
          clientPhone |->
            IF Truthy(data.clientPhone)
            THEN Str(Slice0(Trim(ToString(data.clientPhone)), PhoneCap))
            ELSE data.clientPhone]]

\* [thrown, d]
normalizeAppointment(data) ==
  NormalizedFields(data, normalizeToIsoMinuteZ(ToString(data.startAt)))

\* durationMin * 60_000 for a number n or n + 1/2
DurationMs(durationMin) ==
  durationMin.n * MsPerMinute + (IF durationMin.half THEN MsPerMinute \div 2 ELSE 0)

\* [thrown, v]
computeEndAt(startIso, durationMin) ==
  IsoNoMillis(AddMs(DateParse(startIso), DurationMs(durationMin)))

(***************************************************************************)
(* Request payloads                                                        *)
(***************************************************************************)
\* white-space padding tried around names and phone numbers: 0..MaxPad blanks
MaxPad == 1
\* Date.now() is read within NowSpread milliseconds of 2025-09-20T18:00Z
NowSpread == 1
\* crypto.randomUUID() draws from 1..MaxId
MaxId == 2

ZoneZ == <<"Z">>
Zone(sign, hh, mm) == <<sign>> \o Pad(hh, 2) \o <<":">> \o Pad(mm, 2)

\* the text YYYY-MM-DDTHH:MM followed by zone
IsoMinute(y, mo, d, h, mi, zone) ==
  Pad(y, 4) \o <<"-">> \o Pad(mo, 2) \o <<"-">> \o Pad(d, 2) \o <<"T">>
    \o Pad(h, 2) \o <<":">> \o Pad(mi, 2) \o zone

Padded(s, k) == Rep(" ", k) \o s \o Rep(" ", k)

Jane == <<"J", "a", "n", "e">>
AtExample == <<"@", "E", "x", ".", "c", "o">>

\* The values tried for each field, one field at a time, in an otherwise valid body
ServiceIdInputs ==
  {Undefined, Num(1), Num(0), Num(-1), NumHalf(1), Str(<<"1">>)}

StartAtInputs ==
  {Undefined,
   Str(IsoMinute(2025, 9, 20, 18, 0, ZoneZ)),
   Str(IsoMinute(2025, 9, 20, 19, 0, Zone("+", 1, 0))),
   Str(IsoMinute(2025, 9, 20, 18, 7, ZoneZ)),
   Str(IsoMinute(2025, 9, 20, 18, 15, ZoneZ)),
   Str(IsoMinute(2025, 9, 20, 13, 45, Zone("-", 4, 30))),
   Str(IsoMinute(2025, 9, 20, 18, 0, <<":", "0", "0", "Z">>)),
   Str(IsoMinute(2025, 13, 20, 18, 0, ZoneZ)),
   Str(IsoMinute(2020, 1, 1, 0, 7, ZoneZ)),
   Str(IsoMinute(9999, 12, 31, 23, 30, Zone("-", 1, 0)))}
    \cup {Str(IsoMinute(2025, 9, 20, 18, m, ZoneZ)) : m \in {14, 16, 30, 44, 45, 59}}

ClientNameInputs ==
  {Undefined, Str(<<" ">>), Str(Rep("x", NameMaxLen + 1)),
   Str(<<" ">> \o Rep("x", NameMaxLen))}
    \cup {Str(Padded(Jane, k)) : k \in 0..MaxPad}

ClientEmailInputs ==
  {Undefined, Num(12345), Str(Jane \o AtExample), Str(Jane \o <<"@", "e", "x">>),
   Str(Rep("a", EmailMaxLen - Len(AtExample)) \o AtExample),
   Str(Rep("a", EmailMaxLen + 1 - Len(AtExample)) \o AtExample),
   Str(Rep("a", EmailMaxLen + 1))}

ClientPhoneInputs ==
  {Undefined, Num(1234567), Str(Rep("1", PhoneMinLen - 1)),
   Str(Rep("1", PhoneMaxLen)), Str(Rep("1", PhoneMaxLen + 1))}
    \cup {Str(Padded(Rep("1", PhoneMinLen - 2), k)) : k \in 0..MaxPad}

\* express.json() leaves req.body undefined when the request carries no JSON body
NoBody ==
  [kind |-> "undefined", serviceId |-> Undefined, startAt |-> Undefined,
   clientName |-> Undefined, clientEmail |-> Undefined, clientPhone |-> Undefined]

\* { serviceId: 1, startAt: "2025-09-20T18:00Z", clientName: "Jane", clientEmail }
BaseBody ==
  [kind |-> "object", serviceId |-> Num(1),
   startAt |-> Str(IsoMinute(2025, 9, 20, 18, 0, ZoneZ)),
   clientName |-> Str(Jane), clientEmail |-> Str(Jane \o AtExample),
   clientPhone |-> Undefined]

\* one field varied over all its values
WideBodies ==
  {[BaseBody EXCEPT !.serviceId = v] : v \in ServiceIdInputs}
    \cup {[BaseBody EXCEPT !.startAt = v] : v \in StartAtInputs}
    \cup {[BaseBody EXCEPT !.clientName = v] : v \in ClientNameInputs}
    \cup {[BaseBody EXCEPT !.clientEmail = v] : v \in ClientEmailInputs}
    \cup {[BaseBody EXCEPT !.clientPhone = v] : v \in ClientPhoneInputs}
    \cup {[BaseBody EXCEPT !.clientPhone = v, !.clientEmail = Undefined] :
            v \in ClientPhoneInputs}

\* all fields varied together over a good and one or two bad values each
CoreBodies ==
  [kind : {"object"},
   serviceId : {Num(1), Undefined},
   startAt : {Str(IsoMinute(2025, 9, 20, 18, 15, ZoneZ)),
              Str(IsoMinute(2025, 9, 20, 18, 7, ZoneZ)),
              Str(IsoMinute(2025, 9, 20, 18, 0, <<":", "0", "0", "Z">>))},
   clientName : {Str(Jane), Str(<<" ">>)},
   clientEmail : {Undefined, Str(Jane \o AtExample), Str(Rep("a", EmailMaxLen + 1))},
   clientPhone : {Undefined, Str(Rep("1", PhoneMinLen - 1)),
                  Str(Padded(Rep("1", PhoneMinLen - 2), 1))}]

Bodies == {NoBody} \cup WideBodies \cup CoreBodies

\* the instants Date.now() may return
T0 == DateParse(IsoMinute(2025, 9, 20, 18, 0, ZoneZ))
NowSet == {AddMs(T0, k) : k \in (-NowSpread)..NowSpread}

Ids == 1..MaxId

(***************************************************************************)
(* app.ts: POST /appointments and the central error handler                *)
(***************************************************************************)
VARIABLES
  isProd,     \* process.env.NODE_ENV === "production"
  gridWired,  \* typeof enforceFifteenMinuteGrid === "function"
  pc,         \* position of the handler
  body,       \* req.body
  errors,     \* const errors
  data,       \* const data
  now,        \* const now
  endAt,      \* const endAt
  ids,        \* id, confirmToken, cancelToken
  stages,     \* the stages run so far, in order
  inserted,   \* the records handed to pool.execute
  thrown,     \* the value thrown inside the try block
  forwarded,  \* the value given to next()
  log,        \* what console.error printed
  res,        \* the response sent
  fn          \* the appointments.ts functions applied on their own

vars == <<isProd, gridWired, pc, body, errors, data, now, endAt, ids, stages,
          inserted, thrown, forwarded, log, res, fn>>

DurationMin == 60

MsgAccepted == "Appointment received. Please check your email to confirm."
MsgRedacted == "Something went wrong."
TypeErrorBody == "TypeError: Cannot read properties of undefined (reading 'serviceId')"
RangeErrorTime == "RangeError: Invalid time value"
CryptoError == "Error: crypto operation failed"

NoData == [NoBody EXCEPT !.kind = "none"]
NoIds == [id |-> 0, confirmToken |-> 0, cancelToken |-> 0]
NoDebug == [present |-> FALSE, id |-> 0, confirmToken |-> 0, cancelToken |-> 0]
NoRes == [status |-> 0, message |-> "", errors |-> <<>>, error |-> "", debug |-> NoDebug]
NoThrow == ""
FnIdle == [pc |-> "idle", start |-> <<>>, dur |-> Num(0), once |-> <<>>,
           twice |-> <<>>, endAt |-> <<>>, thrown |-> FALSE]

\* res.status(400).json({ errors })
Reject(errs) == [NoRes EXCEPT !.status = 400, !.errors = errs]

\* res.status(202).json({ message, debug: { id, confirmToken, cancelToken } })
AcceptBody(prod, i) ==
  [NoRes EXCEPT !.status = 202, !.message = MsgAccepted,
                !.debug = [present |-> TRUE, id |-> i.id,
                           confirmToken |-> i.confirmToken,
                           cancelToken |-> i.cancelToken]]

\* an error body that ignores the production flag
ErrorBodyUnredacted(prod, e) == [NoRes EXCEPT !.status = 500, !.error = e]

\* res.status(500).json({ error: isProd ? "Something went wrong." : String(err) })
ErrorBody(prod, e) ==
  [NoRes EXCEPT !.status = 500, !.error = IF prod THEN MsgRedacted ELSE e]

\* errors.length > 1: a variant that lets a single error through
ValidationFailedOffByOne(errs) == Len(errs) > 1

\* errors.length > 0
ValidationFailed(errs) == Len(errs) > 0

\* startMs < now: a variant that lets a start equal to now through
NotInFutureStrict(startMs, n) == ~startMs.ok \/ (TimeLeq(startMs, n) /\ startMs # n)

\* Number.isNaN(startMs) || startMs <= now
NotInFuture(startMs, n) == ~startMs.ok \/ TimeLeq(startMs, n)

Init ==
  /\ isProd \in BOOLEAN
  /\ gridWired \in BOOLEAN
  /\ pc = "idle"
  /\ body = NoBody
  /\ errors = <<>>
  /\ data = NoData
  /\ now = NaN
  /\ endAt = <<>>
  /\ ids = NoIds
  /\ stages = <<>>
  /\ inserted = <<>>
  /\ thrown = NoThrow
  /\ forwarded = NoThrow
  /\ log = <<>>
  /\ res = NoRes
  /\ fn = FnIdle

\* a request passes the rate limiter and enters the handler
Receive ==
  /\ pc = "idle"
  /\ \E b \in Bodies : body' = b
  /\ pc' = "received"
  /\ UNCHANGED <<isProd, gridWired, errors, data, now, endAt, ids, stages,
                 inserted, thrown, forwarded, log, res, fn>>

\* 1) validate; a non-empty list answers 400 with it
Validate ==
  /\ pc = "received"
  /\ stages' = Append(stages, "validate")
  /\ \E r \in {validateAppointment(body)} :
       IF r.thrown
       THEN /\ thrown' = TypeErrorBody
            /\ pc' = "catch"
            /\ UNCHANGED <<errors, res>>
       ELSE /\ errors' = r.errors
            /\ thrown' = thrown
            /\ IF ValidationFailed(r.errors)
               THEN res' = Reject(r.errors) /\ pc' = "done"
               ELSE res' = res /\ pc' = "validated"
  /\ UNCHANGED <<isProd, gridWired, body, data, now, endAt, ids, inserted,
                 forwarded, log, fn>>

\* 2) normalize
Normalize ==
  /\ pc = "validated"
  /\ stages' = Append(stages, "normalize")
  /\ \E r \in {normalizeAppointment(body)} :
       IF r.thrown
       THEN thrown' = RangeErrorTime /\ pc' = "catch" /\ data' = data
       ELSE thrown' = thrown /\ pc' = "normalized" /\ data' = r.d
  /\ UNCHANGED <<isProd, gridWired, body, errors, now, endAt, ids, inserted,
                 forwarded, log, res, fn>>

\* 3a) the 15-minute grid, when the function is there
GridCheck ==
  /\ pc = "normalized"
  /\ IF gridWired
     THEN /\ stages' = Append(stages, "grid")
          /\ \E gridErr \in {enforceFifteenMinuteGrid(data.startAt.s)} :
               IF gridErr # Null
               THEN res' = Reject(<<gridErr>>) /\ pc' = "done"
               ELSE res' = res /\ pc' = "gridChecked"
     ELSE stages' = stages /\ res' = res /\ pc' = "gridChecked"
  /\ UNCHANGED <<isProd, gridWired, body, errors, data, now, endAt, ids,
                 inserted, thrown, forwarded, log, fn>>

\* 3b) startAt must be in the future
FutureCheck ==
  /\ pc = "gridChecked"
  /\ stages' = Append(stages, "future")
  /\ \E n \in NowSet :
       /\ now' = n
       /\ IF NotInFuture(DateParse(data.startAt.s), n)
          THEN res' = Reject(<<MsgFuture>>) /\ pc' = "done"
          ELSE res' = res /\ pc' = "futureChecked"
  /\ UNCHANGED <<isProd, gridWired, body, errors, data, endAt, ids, inserted,
                 thrown, forwarded, log, fn>>

\* 4) compute the end time
ComputeEnd ==
  /\ pc = "futureChecked"
  /\ stages' = Append(stages, "end")
  /\ \E r \in {computeEndAt(data.startAt.s, Num(DurationMin))} :
       IF r.thrown
       THEN thrown' = RangeErrorTime /\ pc' = "catch" /\ endAt' = endAt
       ELSE thrown' = thrown /\ pc' = "endComputed" /\ endAt' = r.v
  /\ UNCHANGED <<isProd, gridWired, body, errors, data, now, ids, inserted,
                 forwarded, log, res, fn>>

\* 5) three crypto.randomUUID() calls, any of which may throw
GenerateIds ==
  /\ pc = "endComputed"
  /\ stages' = Append(stages, "ids")
  /\ \/ /\ \E i \in Ids, c \in Ids, x \in Ids :
             ids' = [id |-> i, confirmToken |-> c, cancelToken |-> x]
        /\ pc' = "identified"
        /\ thrown' = thrown
     \/ /\ thrown' = CryptoError
        /\ pc' = "catch"
        /\ ids' = ids
  /\ UNCHANGED <<isProd, gridWired, body, errors, data, now, endAt, inserted,
                 forwarded, log, res, fn>>

\* 6) the insert is commented out; 7) answer 202
Accept ==
  /\ pc = "identified"
  /\ stages' = Append(stages, "accept")
  /\ res' = AcceptBody(isProd, ids)
  /\ pc' = "done"
  /\ UNCHANGED <<isProd, gridWired, body, errors, data, now, endAt, ids,
                 inserted, thrown, forwarded, log, fn>>

\* catch (err) { next(err) }
Catch ==
  /\ pc = "catch"
  /\ forwarded' = thrown
  /\ pc' = "errorHandler"
  /\ UNCHANGED <<isProd, gridWired, body, errors, data, now, endAt, ids, stages,
                 inserted, thrown, log, res, fn>>

\* the central error handler
ErrorHandler ==
  /\ pc = "errorHandler"
  /\ log' = Append(log, forwarded)
  /\ res' = ErrorBody(isProd, forwarded)
  /\ pc' = "done"
  /\ UNCHANGED <<isProd, gridWired, body, errors, data, now, endAt, ids, stages,
                 inserted, thrown, forwarded, fn>>

Next ==
  \/ Receive
  \/ Validate
  \/ Normalize
  \/ GridCheck
  \/ FutureCheck
  \/ ComputeEnd
  \/ GenerateIds
  \/ Accept
  \/ Catch
  \/ ErrorHandler

Spec == Init /\ [][Next]_vars

(***************************************************************************)
(* normalizeToIsoMinuteZ and computeEndAt applied on their own to           *)
(* minute-precision timestamps and durations                                *)
(***************************************************************************)
\* zone offsets tried: Z and +/-HH:00, +/-HH:30 for HH in 0..MaxZoneHour
MaxZoneHour == 1

FnZones ==
  {ZoneZ} \cup {Zone(sg, h, m) : sg \in {"+", "-"}, h \in 0..MaxZoneHour, m \in {0, 30}}

FnDates == {<<2025, 9, 20>>, <<2024, 2, 29>>, <<1970, 1, 1>>, <<9999, 12, 31>>}

FnStartInputs ==
  {IsoMinute(d[1], d[2], d[3], h, mi, z) :
     d \in FnDates, h \in {0, 18, 23}, mi \in {0, 7, 45}, z \in FnZones}

FnDurations == {Num(0), Num(15), Num(60), Num(-30), NumHalf(0), NumHalf(22)}

InitFn ==
  /\ isProd = FALSE
  /\ gridWired = TRUE
  /\ pc = "idle"
  /\ body = NoBody
  /\ errors = <<>>
  /\ data = NoData
  /\ now = NaN
  /\ endAt = <<>>
  /\ ids = NoIds
  /\ stages = <<>>
  /\ inserted = <<>>
  /\ thrown = NoThrow
  /\ forwarded = NoThrow
  /\ log = <<>>
  /\ res = NoRes
  /\ \E s \in FnStartInputs, d \in FnDurations :
       fn = [FnIdle EXCEPT !.pc = "input", !.start = s, !.dur = d]

pipelineVars == <<isProd, gridWired, pc, body, errors, data, now, endAt, ids,
                  stages, inserted, thrown, forwarded, log, res>>

\* once = normalizeToIsoMinuteZ(start)
FnNormalize ==
  /\ fn.pc = "input"
  /\ \E r \in {normalizeToIsoMinuteZ(fn.start)} :
       fn' = [fn EXCEPT !.pc = IF r.thrown THEN "thrown" ELSE "once", !.once = r.v]
  /\ UNCHANGED pipelineVars

\* twice = normalizeToIsoMinuteZ(once)
FnNormalizeAgain ==
  /\ fn.pc = "once"
  /\ \E r \in {normalizeToIsoMinuteZ(fn.once)} :
       fn' = [fn EXCEPT !.pc = IF r.thrown THEN "thrown" ELSE "twice", !.twice = r.v]
  /\ UNCHANGED pipelineVars

\* endAt = computeEndAt(once, dur)
FnComputeEndAt ==
  /\ fn.pc = "twice"
  /\ \E r \in {computeEndAt(fn.once, fn.dur)} :
       fn' = [fn EXCEPT !.pc = IF r.thrown THEN "thrown" ELSE "end", !.endAt = r.v]
  /\ UNCHANGED pipelineVars

NextFn ==
  \/ FnNormalize
  \/ FnNormalizeAgain
  \/ FnComputeEndAt

SpecFn == InitFn /\ [][NextFn]_vars

(***************************************************************************)
(* Properties                                                              *)
(***************************************************************************)
StageOrder ==
  <<"validate", "normalize", "grid", "future", "end", "ids", "handoff", "accept">>

Rank(st) == CHOOSE i \in 1..Len(StageOrder) : StageOrder[i] = st

Last(q) == q[Len(q)]

Range(q) == {q[i] : i \in 1..Len(q)}

NotNull(m) == m # Null

\* C1: the stages of a request run in the fixed order validate, normalize, grid,
\* future, end, ids, (handoff), accept, none twice and none out of turn, and the
\* request ends at the first failing stage: a non-empty validation list is answered
\* 400 with exactly that list and nothing after validation has run (no normalized
\* data, no clock read, no end time, no identifiers, no insert); after a grid
\* failure the future-time check has not been evaluated.
C1_StagesInOrderAndTerminal ==
  /\ \A i \in 1..(Len(stages) - 1) : Rank(stages[i]) < Rank(stages[i + 1])
  /\ \A i \in 1..Len(stages) :
       \A k \in 1..(Rank(stages[i]) - 1) :
          \/ StageOrder[k] \in Range(SubSeq(stages, 1, i - 1))
          \/ StageOrder[k] = "handoff"
          \/ StageOrder[k] = "grid" /\ ~gridWired
  /\ errors # <<>> =>
       /\ pc = "done" /\ stages = <<"validate">>
       /\ res = Reject(validateAppointment(body).errors)
       /\ data = NoData /\ now = NaN /\ endAt = <<>> /\ ids = NoIds
       /\ inserted = <<>>
  /\ res.errors = <<MsgGrid>> =>
       /\ pc = "done" /\ Last(stages) = "grid" /\ res.status = 400
       /\ now = NaN /\ endAt = <<>> /\ ids = NoIds /\ inserted = <<>>
  /\ res.errors = <<MsgFuture>> =>
       /\ pc = "done" /\ Last(stages) = "future" /\ res.status = 400
       /\ endAt = <<>> /\ ids = NoIds /\ inserted = <<>>
  /\ res.status = 202 => Last(stages) = "accept" /\ pc = "done"

\* C1 witness: a request rejected at validation with several errors
C1_Witness ==
  pc = "done" /\ stages = <<"validate">> /\ res.status = 400 /\ Len(res.errors) >= 3

\* C2: an accepted request (202) has handed exactly one AppointmentRecord (id,
\* normalized fields, startAt, endAt, status pending, both tokens) to the
\* persistence collaborator before the response; a rejected request hands none.
C2_AcceptedHandsOffOneRecord ==
  /\ res.status = 202 =>
       /\ Len(inserted) = 1
       /\ inserted[1] = [id |-> ids.id, data |-> data, endAt |-> endAt,
                         status |-> "pending",
                         confirmToken |-> ids.confirmToken,
                         cancelToken |-> ids.cancelToken]
  /\ res.status \in {400, 500} => inserted = <<>>

\* C3: in production mode the acceptance response does not contain the generated
\* identifiers: it has no debug object, and it is the same whatever identifiers
\* were generated.
C3_ProductionHidesIdentifiers ==
  (isProd /\ res.status = 202) =>
     /\ ~res.debug.present
     /\ \A i \in Ids, c \in Ids, x \in Ids :
          AcceptBody(isProd, [id |-> i, confirmToken |-> c, cancelToken |-> x]) = res

\* The rules of section 4.1 as the validator applies them, each with its message,
\* in the order serviceId, startAt, clientName required, contact presence, email
\* format, email length, phone minimum, phone maximum, name length.
Violations(b) ==
  <<IF b.serviceId.t = "number" /\ IsInteger(b.serviceId) /\ ~LeqZero(b.serviceId)
    THEN Null ELSE MsgServiceId,
    IF b.startAt.t # "string" THEN MsgStartString
    ELSE IF ~ISO_MINUTE_NO_SECONDS(b.startAt.s) THEN MsgStartIso
    ELSE IF DateParse(b.startAt.s) = NaN THEN MsgStartInvalid ELSE Null,
    IF b.clientName.t = "string" /\ Trim(b.clientName.s) # <<>>
    THEN Null ELSE MsgNameRequired,
    IF Truthy(b.clientEmail) \/ Truthy(b.clientPhone) THEN Null ELSE MsgContact,
    IF b.clientEmail.t = "string" /\ b.clientEmail.s # <<>>
       /\ ~EmailShape(b.clientEmail.s)
    THEN MsgEmailFormat ELSE Null,
    IF b.clientEmail.t = "string" /\ Len(b.clientEmail.s) >= EmailMaxLen + 1
    THEN MsgEmailLong ELSE Null,
    IF b.clientPhone.t = "string" /\ Len(b.clientPhone.s) \in 1..(PhoneMinLen - 1)
    THEN MsgPhoneShort ELSE Null,
    IF b.clientPhone.t = "string" /\ Len(b.clientPhone.s) >= PhoneMaxLen + 1
    THEN MsgPhoneLong ELSE Null,
    IF b.clientName.t = "string" /\ Len(Trim(b.clientName.s)) >= NameMaxLen + 1
    THEN MsgNameLong ELSE Null>>

C5_ValidatedNormalizesToDataModel ==
  data # NoData =>
     /\ data.serviceId.t = "number" /\ IsInteger(data.serviceId)
     /\ ~LeqZero(data.serviceId)
     /\ data.clientName.t = "string"
     /\ Trim(data.clientName.s) = data.clientName.s
     /\ Len(data.clientName.s) \in 1..120
     /\ data.clientEmail # Undefined =>
          /\ data.clientEmail.t = "string"
          /\ Trim(data.clientEmail.s) = data.clientEmail.s
          /\ ToLowerCase(data.clientEmail.s) = data.clientEmail.s
          /\ Len(data.clientEmail.s) <= 255
          /\ EmailShape(data.clientEmail.s)
     /\ data.clientPhone # Undefined =>
          /\ data.clientPhone.t = "string"
          /\ Trim(data.clientPhone.s) = data.clientPhone.s
          /\ Len(data.clientPhone.s) \in 7..40
     /\ data.clientEmail # Undefined \/ data.clientPhone # Undefined

\* the minute digits MM of a text ending in MM:00Z
TextMinute(s) == DigitsVal(s, Len(s) - 5, Len(s) - 4)

\* C6: with the grid check wired in, a validated request whose normalized UTC start
\* minute is not a multiple of 15 is answered 400 with exactly the grid message
\* and goes no further, one whose minute is a multiple of 15 passes the check, and
\* the check has run for every validated request that got past normalization; it
\* is left out only when the capability is not wired in.
C6_GridAlignment ==
  (data # NoData /\ pc \notin {"normalized", "catch", "errorHandler"}
     /\ thrown = NoThrow) =>
     /\ gridWired <=> "grid" \in Range(stages)
     /\ (gridWired /\ TextMinute(data.startAt.s) % 15 # 0) =>
          pc = "done" /\ res = Reject(<<MsgGrid>>) /\ "future" \notin Range(stages)
     /\ (gridWired /\ TextMinute(data.startAt.s) % 15 = 0) =>
          /\ res.errors # <<MsgGrid>>
          /\ pc = "gridChecked" \/ "future" \in Range(stages)
     /\ ~gridWired => res.errors # <<MsgGrid>>

\* C6 witness: a validated request off the grid has been rejected by the check
C6_Witness ==
  /\ gridWired /\ data # NoData /\ pc = "done"
  /\ TextMinute(data.startAt.s) = 7 /\ res.errors = <<MsgGrid>>

\* C7: a request is accepted only if its normalized startAt, parsed back, is
\* strictly later than the instant read by the future-time check; once that check
\* has read the clock, a startAt equal to it or earlier ends the request with 400
\* and exactly the message 'startAt must be in the future'.
C7_FutureTimeRule ==
  /\ res.status = 202 =>
       /\ now # NaN
       /\ ~TimeLeq(DateParse(data.startAt.s), now)
       /\ TimeLeq(now, DateParse(data.startAt.s))
  /\ (now # NaN /\ TimeLeq(DateParse(data.startAt.s), now)) =>
       pc = "done" /\ res = Reject(<<MsgFuture>>)
  /\ res.errors = <<MsgFuture>> => TimeLeq(DateParse(data.startAt.s), now)

\* C7 witness: a request whose startAt equals the instant of evaluation is rejected
C7_Witness ==
  /\ pc = "done" /\ now = DateParse(data.startAt.s) /\ now # NaN
  /\ res = Reject(<<MsgFuture>>)

\* C8: for every valid minute-precision timestamp with any offset,
\* normalizeToIsoMinuteZ gives the same instant floored to the minute in the form
\* YYYY-MM-DDTHH:MM:00Z, normalizing twice gives the same string as normalizing
\* once, and inputs denoting the same instant normalize to the same string.
C8_NormalizeCanonicalIdempotent ==
  fn.pc \in {"twice", "end"} =>
     /\ Len(fn.once) = 20
     /\ ISO_MINUTE_NO_SECONDS(SubSeq(fn.once, 1, 16) \o ZoneZ)
     /\ SubSeq(fn.once, 17, 20) = <<":", "0", "0", "Z">>
     /\ DateParse(fn.once) = MinuteFloor(DateParse(fn.start))
     /\ fn.twice = fn.once
     /\ \A s \in FnStartInputs :
          DateParse(s) = DateParse(fn.start) => normalizeToIsoMinuteZ(s).v = fn.once

\* C9: a fault raised while handling a request is not recovered or retried: the
\* stage that threw is the last one run, the thrown value is what the error handler
\* receives, the handler logs it and answers 500 with, in production, the fixed
\* redacted message and nothing else (outside production, the error's text); such a
\* request is never answered 202 or 400, and without a fault nothing is logged and
\* no 500 is sent.
C9_FaultsForwardedAndRedacted ==
  /\ thrown # NoThrow =>
       /\ pc \in {"catch", "errorHandler", "done"}
       /\ res.status \notin {202, 400}
       /\ thrown = TypeErrorBody => stages = <<"validate">>
       /\ thrown = CryptoError => Last(stages) = "ids"
       /\ \A i \in 1..Len(stages), j \in 1..Len(stages) :
            stages[i] = stages[j] => i = j
  /\ (thrown # NoThrow /\ pc \in {"errorHandler", "done"}) => forwarded = thrown
  /\ (thrown # NoThrow /\ pc = "done") =>
       /\ log = <<thrown>>
       /\ res = [NoRes EXCEPT !.status = 500,
                              !.error = IF isProd THEN MsgRedacted ELSE thrown]
  /\ thrown = NoThrow => log = <<>> /\ res.status # 500 /\ forwarded = NoThrow

\* C9 witness: in production a failed identifier generation has been answered
C9_Witness ==
  isProd /\ thrown = CryptoError /\ pc = "done" /\ res.status = 500

\* C10: for every normalized startAt and every duration in minutes, computeEndAt
\* gives the instant startAt + duration in the form YYYY-MM-DDTHH:MM:00Z (seconds
\* 00, no milliseconds).
C10_EndAtCanonical ==
  (fn.pc = "end" /\ Len(fn.once) = 20) =>
     /\ DateParse(fn.endAt) = AddMs(DateParse(fn.once), DurationMs(fn.dur))
     /\ Len(fn.endAt) = 20
     /\ ISO_MINUTE_NO_SECONDS(SubSeq(fn.endAt, 1, 16) \o ZoneZ)
     /\ SubSeq(fn.endAt, 17, 20) = <<":", "0", "0", "Z">>

====
